---- MODULE Spec2Model ----
(***************************************************************************)
(* Model of the board-game comment collector:                              *)
(*   data_collection/bgg_api_client.py    BGGDataClient                    *)
(*   data_collection/data_retriever.py    DataRetriever                    *)
(*   data_collection/data_preprocessor.py DataPreprocessor                 *)
(*                                                                         *)
(* Python values are represented as follows.                               *)
(*   Optional[T]    a sequence: <<>> is None, <<v>> is the value v         *)
(*   str            a TLA+ string where only equality is used, a sequence  *)
(*                  of one-character strings where the code works on the   *)
(*                  characters (game names, id and value attributes)       *)
(*   dict           a sequence of <<key, value>> pairs with distinct keys, *)
(*                  in insertion order                                     *)
(*   call outcome   [st |-> "return", val |-> v] or                        *)
(*                  [st |-> "raise", exc |-> class name]                   *)
(***************************************************************************)
EXTENDS Integers, Sequences, FiniteSets, TLC

\* ------------------------------------------------------------------ bounds
MaxRetriesBound == 3
MaxDelay == 2
MaxNames == 2

\* ---------------------------------------------------------- Python basics
None == <<>>

Some(v) == <<v>>

Ret(v) == [st |-> "return", val |-> v]

Raise(e) == [st |-> "raise", exc |-> e]

\* requests.RequestException and the subclasses a GET can raise
RequestExceptions == {"ConnectionError", "Timeout", "HTTPError"}

\* classes derived from Exception that the modelled code can raise
\* IOError is an alias of OSError; its subclasses as they arise on open()
IOErrorClasses == {"OSError", "FileNotFoundError", "PermissionError", "IsADirectoryError"}

\* classes derived from Exception that the modelled code can raise
ExceptionClasses ==
  RequestExceptions \cup IOErrorClasses \cup
    {"ParseError", "TypeError", "ValueError", "AttributeError", "KeyError",
     "LookupError", "UnicodeDecodeError", "JSONDecodeError"}

\* ------------------------------------------------------------------- dicts
DictKeys(d) == [i \in 1..Len(d) |-> d[i][1]]

DictHas(d, k) == \E i \in 1..Len(d) : d[i][1] = k

DictGet(d, k) == d[CHOOSE i \in 1..Len(d) : d[i][1] = k][2]

\* d[k] = v: a present key keeps its position, a new key goes last
DictSet(d, k, v) ==
  IF DictHas(d, k)
  THEN [i \in 1..Len(d) |-> IF d[i][1] = k THEN <<k, v>> ELSE d[i]]
  ELSE Append(d, <<k, v>>)

\* ------------------------------------------------------------- characters
UpperCase == <<"A", "B", "C", "D", "E", "F", "G", "H", "I", "J", "K", "L", "M",
               "N", "O", "P", "Q", "R", "S", "T", "U", "V", "W", "X", "Y", "Z">>

LowerCase == <<"a", "b", "c", "d", "e", "f", "g", "h", "i", "j", "k", "l", "m",
               "n", "o", "p", "q", "r", "s", "t", "u", "v", "w", "x", "y", "z">>

IsUpper(c) == \E i \in 1..26 : UpperCase[i] = c

IsLower(c) == \E i \in 1..26 : LowerCase[i] = c

IsAlpha(c) == IsUpper(c) \/ IsLower(c)

\* ------------------------------------------------------------------- JSON
JNull == [t |-> "null"]

JStr(s) == [t |-> "string", s |-> s]

JArr(items) == [t |-> "array", items |-> items]

JObj(members) == [t |-> "object", members |-> members]

\* variant: None is written as the text of str(None)
DumpOptAsStr(x) == IF x = None THEN JStr(<<"N", "o", "n", "e">>) ELSE JStr(x[1])

\* json.dump of an Optional[str]
DumpOpt(x) == IF x = None THEN JNull ELSE JStr(x[1])

\* json.dump of a comment dict: its members in insertion order
DumpComment(c) == JObj([i \in 1..Len(c) |-> <<c[i][1], DumpOpt(c[i][2])>>])

\* json.dump of a list of comments
DumpComments(l) == JArr([i \in 1..Len(l) |-> DumpComment(l[i])])

\* json.dump of a dataset: one member per game, in insertion order
DumpDataset(d) == JObj([i \in 1..Len(d) |-> <<d[i][1], DumpComments(d[i][2])>>])

RECURSIVE PyOf(_)
RECURSIVE PyMembers(_, _, _)
\* json.load: the Python value of a JSON value
PyOf(j) ==
  CASE j.t = "null" -> None
    [] j.t = "string" -> Some(j.s)
    [] j.t = "array" -> [i \in 1..Len(j.items) |-> PyOf(j.items[i])]
    [] OTHER -> PyMembers(j.members, 1, <<>>)

\* the dict of an object: members are stored in order, a repeated key
\* keeps the last value
PyMembers(ms, i, acc) ==
  IF i > Len(ms) THEN acc
  ELSE PyMembers(ms, i + 1, DictSet(acc, ms[i][1], PyOf(ms[i][2])))

\* ------------------------------------------------------------------- files
Missing == [kind |-> "missing"]

\* a file holding the JSON text of j
Text(j) == [kind |-> "json", j |-> j]

\* a file left behind by a write that failed part way: not valid JSON
Truncated == [kind |-> "truncated"]

\* a file whose bytes are not UTF-8
NotUtf8 == [kind |-> "notutf8"]

\* a file the process may not open
Denied == [kind |-> "denied"]

\* a directory at the path
Directory == [kind |-> "directory"]

\* ------------------------------------------------------------ XML documents
\* An element: tag, attributes (a function from attribute name to value),
\* text (Optional) and children in document order.
El(tag, attrs, kids) == [tag |-> tag, attrs |-> attrs, text |-> None, kids |-> kids]

\* a leaf element holding text only
TextEl(tag, text) == [tag |-> tag, attrs |-> <<>>, text |-> Some(text), kids |-> <<>>]

NoAttrs == <<>>

\* Element.get(name): the attribute's value or None
Get(e, a) == IF a \in DOMAIN e.attrs THEN Some(e.attrs[a]) ELSE None

\* variant: the last matching child instead of the first
FindLast(e, tag) ==
  LET hits == {i \in 1..Len(e.kids) : e.kids[i].tag = tag}
  IN IF hits = {} THEN None
     ELSE Some(e.kids[CHOOSE i \in hits : \A j \in hits : i >= j])

\* Element.find(tag): the first direct child with that tag, or None
Find(e, tag) ==
  LET hits == {i \in 1..Len(e.kids) : e.kids[i].tag = tag}
  IN IF hits = {} THEN None
     ELSE Some(e.kids[CHOOSE i \in hits : \A j \in hits : i <= j])

RECURSIVE FindAllIn(_, _)
RECURSIVE FindAllKids(_, _, _)
\* the elements with this tag in the subtree of e, e included, document order
FindAllIn(e, tag) ==
  (IF e.tag = tag THEN <<e>> ELSE <<>>) \o FindAllKids(e.kids, 1, tag)

FindAllKids(kids, i, tag) ==
  IF i > Len(kids) THEN <<>>
  ELSE FindAllIn(kids[i], tag) \o FindAllKids(kids, i + 1, tag)

\* Element.findall(".//tag"): all descendants with that tag, document order
FindAllDesc(e, tag) == FindAllKids(e.kids, 1, tag)

\* ------------------------------------------------------------------ int(str)
Digits == <<"0", "1", "2", "3", "4", "5", "6", "7", "8", "9">>

IsDigit(c) == \E d \in 1..10 : Digits[d] = c

DigitVal(c) == (CHOOSE d \in 1..10 : Digits[d] = c) - 1

IsSpace(c) == c \in {" ", "\t", "\n"}

RECURSIVE LStrip(_)
LStrip(s) == IF s # <<>> /\ IsSpace(Head(s)) THEN LStrip(Tail(s)) ELSE s

RECURSIVE RStrip(_)
RStrip(s) ==
  IF s # <<>> /\ IsSpace(s[Len(s)]) THEN RStrip(SubSeq(s, 1, Len(s) - 1)) ELSE s

RECURSIVE DecVal(_, _)
DecVal(s, acc) == IF s = <<>> THEN acc ELSE DecVal(Tail(s), 10 * acc + DigitVal(Head(s)))

\* int(x) for x an Optional[str]: TypeError on None, ValueError on a string
\* that is not an optionally signed decimal numeral (surrounding blanks allowed)
PyInt(x) ==
  IF x = None THEN Raise("TypeError")
  ELSE LET t == RStrip(LStrip(x[1]))
           signed == t # <<>> /\ Head(t) \in {"+", "-"}
           body == IF signed THEN Tail(t) ELSE t
       IN IF body = <<>> \/ \E i \in 1..Len(body) : ~IsDigit(body[i])
          THEN Raise("ValueError")
          ELSE Ret(IF signed /\ Head(t) = "-" THEN 0 - DecVal(body, 0) ELSE DecVal(body, 0))

\* ------------------------------------------------- responses of the remote API
Chars(id) ==
  CASE id = 13 -> <<"1", "3">>
    [] id = 7 -> <<"7">>
    [] id = 42 -> <<" ", "0", "4", "2">>
    [] OTHER -> <<"x", "1">>

Item(id) == El("item", [id |-> Chars(id)], <<>>)

ValueFun == <<"T", "h", "e", " ", "F", "u", "n", "!">>

ValueMeh == <<"m", "e", "h", " ", "7">>

CommentFull ==
  El("comment", [username |-> <<"a", "n", "n">>, rating |-> <<"8">>, value |-> ValueFun], <<>>)

CommentAnon == El("comment", [value |-> ValueMeh], <<>>)

CommentBare == El("comment", [username |-> <<"b", "o">>, rating |-> <<"N", "/", "A">>], <<>>)

Doc(root) == [wf |-> TRUE, root |-> root]

\* a body that is not well-formed XML
Malformed == [wf |-> FALSE, root |-> El("", NoAttrs, <<>>)]

\* search responses in the remote schema: <items> holding <item id="..."/>
SearchDocs ==
  { Doc(El("items", NoAttrs, <<>>)),
    Doc(El("items", NoAttrs, <<Item(13)>>)),
    Doc(El("items", NoAttrs, <<Item(7), Item(13)>>)),
    Doc(El("items", NoAttrs, <<Item(42), Item(7)>>)) }

\* thing responses: <items><item id=".."> name, description, comments
ThingDocs ==
  { Doc(El("items", NoAttrs,
           <<El("item", [id |-> Chars(13)],
                <<El("name", [value |-> <<"C", "a", "t", "a", "n">>], <<>>),
                  TextEl("description", <<"t", "r", "a", "d", "e">>),
                  El("comments", NoAttrs, <<CommentFull, CommentAnon>>)>>)>>)),
    Doc(El("items", NoAttrs,
           <<El("item", [id |-> Chars(7)],
                <<El("yearpublished", [value |-> <<"1", "9", "9", "5">>], <<>>),
                  El("comments", NoAttrs, <<CommentBare>>)>>)>>)) }

\* well-formed bodies outside the schema: an item without id or with a
\* non-numeric id, an item that is not a child of the root, a name without value
OddDocs ==
  { Doc(El("items", NoAttrs, <<El("item", NoAttrs, <<El("name", NoAttrs, <<>>)>>), Item(7)>>)),
    Doc(El("items", NoAttrs, <<Item(0)>>)),
    Doc(El("error", NoAttrs, <<El("wrap", NoAttrs, <<Item(7), CommentBare>>)>>)) }

Docs == SearchDocs \cup ThingDocs \cup OddDocs \cup {Malformed}

\* what _safe_api_call can end with when max_retries >= 1
FetchOutcomes ==
  {Raise(e) : e \in RequestExceptions} \cup {Ret(Some(d)) : d \in Docs}

\* ------------------------------------------------------------ BGGDataClient
\* try ... except <classes>: return <value>
Catch(outcome, classes, value) ==
  IF outcome.st = "raise" /\ outcome.exc \in classes THEN Ret(value) ELSE outcome

\* _parse_xml: ET.fromstring; ParseError is logged and re-raised
parse_xml(xml_string) ==
  IF xml_string = None THEN Raise("TypeError")
  ELSE IF ~xml_string[1].wf THEN Raise("ParseError")
  ELSE Ret(xml_string[1].root)

\* the body of the try block of get_game_id, given how _safe_api_call ended
get_game_id_try(fo) ==
  IF fo.st = "raise" THEN fo
  ELSE LET root == parse_xml(fo.val)
       IN IF root.st = "raise" THEN root
          ELSE LET game == Find(root.val, "item")
               IN IF game # None
                  THEN LET n == PyInt(Get(game[1], "id"))
                       IN IF n.st = "raise" THEN n ELSE Ret(Some(n.val))
                  ELSE Ret(None)

\* except Exception (get_game_id)
GetGameIdCaught == ExceptionClasses

get_game_id(fo) == Catch(get_game_id_try(fo), GetGameIdCaught, None)

\* <child>.get("value") if the child exists, else None
ChildValue(item, tag) ==
  LET c == Find(item, tag) IN IF c # None THEN Get(c[1], "value") ELSE None

get_game_info_try(game_id, fo) ==
  IF fo.st = "raise" THEN fo
  ELSE LET root == parse_xml(fo.val)
       IN IF root.st = "raise" THEN root
          ELSE LET item == Find(root.val, "item")
               IN IF item # None
                  THEN Ret(Some([id |-> game_id,
                                 name |-> ChildValue(item[1], "name"),
                                 year |-> ChildValue(item[1], "yearpublished"),
                                 description |->
                                   LET d == Find(item[1], "description")
                                   IN IF d # None THEN d[1].text ELSE None]))
                  ELSE Ret(None)

\* except Exception (get_game_info)
GetGameInfoCaught == ExceptionClasses

get_game_info(game_id, fo) == Catch(get_game_info_try(game_id, fo), GetGameInfoCaught, None)

\* the dict built from one <comment> element
CommentOf(c) ==
  << <<"username", Get(c, "username")>>, <<"rating", Get(c, "rating")>>,
     <<"value", Get(c, "value")>> >>

get_game_comments_try(fo) ==
  IF fo.st = "raise" THEN fo
  ELSE LET root == parse_xml(fo.val)
       IN IF root.st = "raise" THEN root
          ELSE LET found == FindAllDesc(root.val, "comment")
               IN Ret([i \in 1..Len(found) |-> CommentOf(found[i])])

\* variant: only the parse failure is handled
OnlyParseErrorCaught == {"ParseError"}

\* except Exception (get_game_comments)
GetGameCommentsCaught == ExceptionClasses

get_game_comments(fo) == Catch(get_game_comments_try(fo), GetGameCommentsCaught, <<>>)

\* ------------------------------------------------------------ DataRetriever
IsAlnum(c) == IsAlpha(c) \/ IsDigit(c)

\* _sanitize_filename
sanitize_filename(name) ==
  [i \in 1..Len(name) |->
     IF IsAlnum(name[i]) \/ name[i] \in {".", "_", "-"} THEN name[i] ELSE "_"]

\* os.path.join(output_dir, f"{sanitized_name}_comments.json")
GamePath(name) == sanitize_filename(name) \o <<"_comments.json">>

\* os.path.join(output_dir, "full_comments_dataset.json")
FullPath == <<"full_comments_dataset.json">>

\* a file outside the output directory
OtherPath == <<"elsewhere.json">>

GameNames == { <<"A", "/", "B">>, <<"A", " ", "B">>, <<"C", "1">> }

Paths == {GamePath(n) : n \in GameNames} \cup {FullPath, OtherPath}

\* how a write can go: "ok", open() refused, or the device full part way
ErrClass(io) == IF io = "ENOSPC" THEN "OSError" ELSE io

\* variant: an existing file is kept
WriteFileOnce(fs, path, j, io) ==
  CASE io = "ok" /\ fs[path] = Missing -> [fs EXCEPT ![path] = Text(j)]
    [] io = "ENOSPC" -> [fs EXCEPT ![path] = Truncated]
    [] OTHER -> fs

\* with open(path, "w") as f: json.dump(...)
WriteFile(fs, path, j, io) ==
  CASE io = "ok" -> [fs EXCEPT ![path] = Text(j)]
    [] io = "ENOSPC" -> [fs EXCEPT ![path] = Truncated]
    [] OTHER -> fs

\* except IOError (_save_game_comments)
SaveGameCaught == IOErrorClasses

\* how _save_game_comments ends
save_game_comments(io) ==
  Catch(IF io = "ok" THEN Ret(None) ELSE Raise(ErrClass(io)), SaveGameCaught, None)

\* variant: only a missing directory is handled
OnlyNotFoundCaught == {"FileNotFoundError"}

\* except IOError (_save_full_dataset)
SaveFullCaught == IOErrorClasses

\* how _save_full_dataset ends
save_full_dataset(io) ==
  Catch(IF io = "ok" THEN Ret(None) ELSE Raise(ErrClass(io)), SaveFullCaught, None)

\* variant: a game that was not found is processed like a found one
BranchIgnoringNone(r) == IF r.st = "raise" THEN "except" ELSE "comments"

\* where retrieve_comments goes after get_game_id ended with r
BranchAfterLookup(r) ==
  IF r.st = "raise" THEN "except"
  ELSE IF r.val = None THEN "continue"
  ELSE "comments"

\* variant: the loop stops one name early
LoopOverOneEarly(gs, i) == i >= Len(gs)

\* the for loop of retrieve_comments is over
LoopOver(gs, i) == i > Len(gs)

ReadFile(fs, path) == IF path \in DOMAIN fs THEN fs[path] ELSE Missing

\* with open(load_path, "r", encoding="utf-8") as f: data = json.load(f)
open_and_load(content) ==
  CASE content.kind = "missing" -> Raise("FileNotFoundError")
    [] content.kind = "denied" -> Raise("PermissionError")
    [] content.kind = "directory" -> Raise("IsADirectoryError")
    [] content.kind = "notutf8" -> Raise("UnicodeDecodeError")
    [] content.kind = "truncated" -> Raise("JSONDecodeError")
    [] OTHER -> Ret(PyOf(content.j))

\* truth value of an Optional[str]
Truthy(x) == x # None /\ x[1] # <<>>

\* source or self.download_path or os.path.join(self.output_dir, ...)
load_path(dp, src) ==
  IF Truthy(src) THEN src[1] ELSE IF Truthy(dp) THEN dp[1] ELSE FullPath

\* load_local_dataset: the two except clauses return {}
load_local_dataset(fs, dp, src) ==
  Catch(Catch(open_and_load(ReadFile(fs, load_path(dp, src))),
              {"FileNotFoundError"}, <<>>),
        {"JSONDecodeError"}, <<>>)

\* ---------------------------------------------------------- DataPreprocessor
Lower(c) ==
  IF IsUpper(c) THEN LowerCase[CHOOSE i \in 1..26 : UpperCase[i] = c] ELSE c

KeepInCleanText(c) == IsAlpha(c) \/ IsSpace(c)

\* clean_text: lower(), then re.sub(r'[^a-zA-Z\s]', '', text)
clean_text(text) == SelectSeq([i \in 1..Len(text) |-> Lower(text[i])], KeepInCleanText)

RECURSIVE Words(_, _)
\* word_tokenize on cleaned text: the maximal runs of letters
Words(text, cur) ==
  IF text = <<>> THEN (IF cur = <<>> THEN <<>> ELSE <<cur>>)
  ELSE IF IsSpace(Head(text))
       THEN (IF cur = <<>> THEN <<>> ELSE <<cur>>) \o Words(Tail(text), <<>>)
       ELSE Words(Tail(text), Append(cur, Head(text)))

\* some of stopwords.words('english')
StopWords == { <<"t", "h", "e">>, <<"i", "s">>, <<"a">> }

NotStopWord(w) == w \notin StopWords

\* tokenize: any failure of the tokenizer or its resources gives []
tokenize(text, nltk_ok) ==
  IF nltk_ok THEN SelectSeq(Words(text, <<>>), NotStopWord) ELSE <<>>

\* one pass of the inner loop body of preprocess_dataset
preprocess_comment(comment, nltk_ok) ==
  IF ~DictHas(comment, "value") THEN Raise("KeyError")
  ELSE LET value == DictGet(comment, "value")
       IN IF value = None THEN Raise("AttributeError")
          ELSE LET cleaned == clean_text(value[1])
               IN Ret(DictSet(DictSet(comment, "clean_text", cleaned),
                              "tokens", tokenize(cleaned, nltk_ok)))

RECURSIVE preprocess_comments(_, _, _, _)
\* the inner loop of preprocess_dataset over one game's comments, from
\* position c on; an exception ends it
preprocess_comments(comments, c, acc, nltk_ok) ==
  IF c > Len(comments) THEN Ret(acc)
  ELSE LET r == preprocess_comment(comments[c], nltk_ok)
       IN IF r.st = "raise" THEN r
          ELSE preprocess_comments(comments, c + 1, Append(acc, r.val), nltk_ok)

RECURSIVE preprocess_games(_, _, _, _)
\* the outer loop of preprocess_dataset over dataset.items(), from position g on
preprocess_games(ds, g, acc, nltk_ok) ==
  IF g > Len(ds) THEN Ret(acc)
  ELSE LET r == preprocess_comments(ds[g][2], 1, <<>>, nltk_ok)
       IN IF r.st = "raise" THEN r
          ELSE preprocess_games(ds, g + 1, DictSet(acc, ds[g][1], r.val), nltk_ok)

preprocess_dataset(ds, nltk_ok) == preprocess_games(ds, 1, <<>>, nltk_ok)

\* ===================================================================== state
VARIABLES
  \* one lookup call on a BGGDataClient
  max_retries,   \* self.max_retries
  retry_delay,   \* self.retry_delay
  op,            \* the lookup method called
  cpc,           \* position in the call: "fetch", "handle", "done", "idle"
  attempt,       \* loop variable of _safe_api_call
  gets,          \* how each requests.get so far ended: "ok" or the exception class
  sleeps,        \* the arguments of the time.sleep calls so far
  fetch,         \* how _safe_api_call ended, [st |-> "running"] before
  result,        \* how the lookup method ended, [st |-> "pending"] before
  \* one call of DataRetriever.retrieve_comments
  games,         \* the argument: the list of names
  idx,           \* 1-based position of game_name in games
  rpc,           \* position in the call: "lookup", "comments", "save", "done", "idle"
  game_id,       \* Optional[int]
  all_comments,  \* the dict being built
  files,         \* the file system: path -> content
  events,        \* what the call has done so far, in order
  ret,           \* how retrieve_comments ended, [st |-> "pending"] before
  \* a DataRetriever saving and loading, and a DataPreprocessor
  download_path, \* self.download_path, Optional[str]
  dataset,       \* the Dataset handed to _save_full_dataset or preprocess_dataset
  spc,           \* position: "save", "load", "preprocess", "done", "idle"
  save_io,       \* how the write of the aggregate file went
  source,        \* the argument of load_local_dataset
  loaded,        \* how load_local_dataset ended
  nltk_ok,       \* whether the tokenizer and its resources work
  prep           \* how preprocess_dataset ended

clientVars == <<max_retries, retry_delay, op, cpc, attempt, gets, sleeps, fetch, result>>

retrVars == <<games, idx, rpc, game_id, all_comments, files, events, ret>>

retrRest == <<games, idx, rpc, game_id, all_comments, events, ret>>

storeVars == <<download_path, dataset, spc, save_io, source, loaded, nltk_ok, prep>>

vars == <<clientVars, retrVars, storeVars>>

Ops == {"get_game_id", "get_game_info", "get_game_comments"}

Running == [st |-> "running"]

Pending == [st |-> "pending"]

\* BGGDataClient.__init__ followed by the call of one lookup method
ClientInit ==
  /\ max_retries \in 0..MaxRetriesBound
  /\ retry_delay \in 1..MaxDelay
  /\ op \in Ops
  /\ cpc = "fetch"
  /\ attempt = 0
  /\ gets = <<>>
  /\ sleeps = <<>>
  /\ fetch = Running
  /\ result = Pending

ClientIdle ==
  /\ max_retries = 3
  /\ retry_delay = 2
  /\ op = "get_game_id"
  /\ cpc = "idle"
  /\ attempt = 0
  /\ gets = <<>>
  /\ sleeps = <<>>
  /\ fetch = Running
  /\ result = Pending

\* ------------------------------------------------------------ initial states
RECURSIVE SeqsUpTo(_, _)
\* the sequences over S of length at most n
SeqsUpTo(S, n) ==
  IF n = 0 THEN {<<>>}
  ELSE LET shorter == SeqsUpTo(S, n - 1)
       IN shorter \cup {Append(q, x) : q \in shorter, x \in S}

NoFiles == [p \in Paths |-> Missing]

Event(ev, i, ok, val) == [ev |-> ev, i |-> i, ok |-> ok, val |-> val]

\* DataRetriever.__init__ (the client with its defaults) and the entry of
\* retrieve_comments
RetrInit ==
  /\ games \in SeqsUpTo(GameNames, MaxNames)
  /\ idx = 1
  /\ rpc = "lookup"
  /\ game_id = None
  /\ all_comments = <<>>
  /\ files = NoFiles
  /\ events = <<>>
  /\ ret = Pending

RetrIdle ==
  /\ games = <<>>
  /\ idx = 1
  /\ rpc = "idle"
  /\ game_id = None
  /\ all_comments = <<>>
  /\ files = NoFiles
  /\ events = <<>>
  /\ ret = Pending

\* the comment lists get_game_comments can return
CommentLists == {get_game_comments(fo).val : fo \in FetchOutcomes}

\* the Datasets retrieve_comments can build from at most MaxNames names
Datasets ==
  {d \in SeqsUpTo(GameNames \X CommentLists, MaxNames) :
     \A i, j \in 1..Len(d) : i # j => d[i][1] # d[j][1]}

\* what may lie at a path before the program runs: nothing, a snapshot of an
\* earlier run, JSON that is no Dataset, or something unreadable
Snapshots ==
  { Text(DumpDataset(<< << <<"C", "1">>, <<CommentOf(CommentAnon)>> >> >>)),
    Text(JArr(<<JStr(<<"x">>)>>)) }

Contents == {Missing, Truncated, NotUtf8, Denied, Directory} \cup Snapshots

Sources == {None, Some(<<>>), Some(FullPath), Some(OtherPath), Some(<<"nowhere.json">>)}

StoreIdle ==
  /\ download_path = None
  /\ dataset = <<>>
  /\ spc = "idle"
  /\ save_io = "none"
  /\ source = None
  /\ loaded = Pending
  /\ nltk_ok = TRUE
  /\ prep = Pending

\* DataRetriever(output_dir, download_path) over a disk holding anything,
\* about to save a Dataset
StoreInit ==
  /\ download_path \in {None, Some(FullPath), Some(OtherPath)}
  /\ dataset \in Datasets
  /\ files \in {[p \in Paths |-> IF p = OtherPath THEN c ELSE Missing] : c \in Contents}
  /\ spc = "save"
  /\ save_io = "none"
  /\ source = None
  /\ loaded = Pending
  /\ nltk_ok = TRUE
  /\ prep = Pending
  /\ games = <<>> /\ idx = 1 /\ rpc = "idle" /\ game_id = None
  /\ all_comments = <<>> /\ events = <<>> /\ ret = Pending

\* a DataPreprocessor about to preprocess a retrieved Dataset
PrepInit ==
  /\ download_path = None
  /\ dataset \in Datasets
  /\ spc = "preprocess"
  /\ save_io = "none"
  /\ source = None
  /\ loaded = Pending
  /\ nltk_ok \in BOOLEAN
  /\ prep = Pending

\* ================================================== one lookup call, by step
\* one iteration of the loop of _safe_api_call in which requests.get or
\* raise_for_status raises a RequestException
GetFails ==
  /\ cpc = "fetch"
  /\ attempt < max_retries
  /\ \E e \in RequestExceptions :
       /\ gets' = Append(gets, e)
       /\ IF attempt < max_retries - 1
          THEN /\ sleeps' = Append(sleeps, retry_delay * (attempt + 1))
               /\ attempt' = attempt + 1
               /\ UNCHANGED <<fetch, cpc>>
          ELSE /\ fetch' = Raise(e)
               /\ cpc' = "handle"
               /\ UNCHANGED <<sleeps, attempt>>
  /\ UNCHANGED <<max_retries, retry_delay, op, result>>
  /\ UNCHANGED <<retrVars, storeVars>>

\* one iteration in which the GET succeeds: return response.text
GetSucceeds ==
  /\ cpc = "fetch"
  /\ attempt < max_retries
  /\ \E d \in Docs :
       /\ gets' = Append(gets, "ok")
       /\ fetch' = Ret(Some(d))
       /\ cpc' = "handle"
  /\ UNCHANGED <<max_retries, retry_delay, op, attempt, sleeps, result>>
  /\ UNCHANGED <<retrVars, storeVars>>

\* range(self.max_retries) is exhausted: the function falls off its end
LoopExhausted ==
  /\ cpc = "fetch"
  /\ attempt >= max_retries
  /\ fetch' = Ret(None)
  /\ cpc' = "handle"
  /\ UNCHANGED <<max_retries, retry_delay, op, attempt, gets, sleeps, result>>
  /\ UNCHANGED <<retrVars, storeVars>>

\* the rest of the lookup method after _safe_api_call ended
LookupReturns ==
  /\ cpc = "handle"
  /\ result' = CASE op = "get_game_id" -> get_game_id(fetch)
                 [] op = "get_game_info" -> get_game_info(13, fetch)
                 [] OTHER -> get_game_comments(fetch)
  /\ cpc' = "done"
  /\ UNCHANGED <<max_retries, retry_delay, op, attempt, gets, sleeps, fetch>>
  /\ UNCHANGED <<retrVars, storeVars>>

ClientNext == GetFails \/ GetSucceeds \/ LoopExhausted \/ LookupReturns

InitClient == ClientInit /\ RetrIdle /\ StoreIdle

SpecClient == InitClient /\ [][ClientNext]_vars

\* C1: under persistent transport failure _safe_api_call makes exactly
\* max_retries attempts, sleeps retry_delay * k after the k-th failed attempt
\* that is followed by another one (strictly increasing delays), and ends by
\* raising the last failure; it never returns normally.
C1_RetryThenPropagate ==
  (cpc \in {"handle", "done"} /\ \A i \in 1..Len(gets) : gets[i] # "ok") =>
    /\ Len(gets) = max_retries
    /\ Len(sleeps) = max_retries - 1
    /\ \A k \in 1..Len(sleeps) : sleeps[k] = retry_delay * k
    /\ \A k \in 1..(Len(sleeps) - 1) : sleeps[k] < sleeps[k + 1]
    /\ fetch.st = "raise"
    /\ fetch.exc = gets[Len(gets)]

\* the fetch or the parse of the finished lookup failed
LookupFailed ==
  \/ fetch.st = "raise"
  \/ fetch.st = "return" /\ parse_xml(fetch.val).st = "raise"

\* C2: whatever the fetch (success, transport failure after the retries) and
\* the parse (well-formed or malformed) did, a finished lookup has returned
\* and not raised, and after a failed fetch or parse it returned None
\* (get_game_id, get_game_info) or the empty list (get_game_comments).
C2_LookupsNeverRaise ==
  cpc = "done" =>
    /\ result.st = "return"
    /\ LookupFailed => result.val = <<>>

C2_Witness ==
  /\ cpc = "done"
  /\ op = "get_game_comments"
  /\ max_retries >= 2
  /\ Len(gets) = max_retries
  /\ fetch.st = "raise"
  /\ result = Ret(<<>>)

\* the value of a decimal numeral, by the weight of each digit
RECURSIVE Pow10(_)
Pow10(n) == IF n = 0 THEN 1 ELSE 10 * Pow10(n - 1)

RECURSIVE WeightedSum(_, _)
WeightedSum(ds, i) ==
  IF i > Len(ds) THEN 0
  ELSE DigitVal(ds[i]) * Pow10(Len(ds) - i) + WeightedSum(ds, i + 1)

NumeralValue(s) == WeightedSum(SelectSeq(s, IsDigit), 1)

IsNumeral(s) ==
  /\ \E i \in 1..Len(s) : IsDigit(s[i])
  /\ \A i \in 1..Len(s) : IsDigit(s[i]) \/ s[i] = " "

\* a well-formed search response of the remote API: <items> whose children
\* are <item> elements, each with a numeric id attribute
IsSearchResponse(d) ==
  /\ d.wf
  /\ d.root.tag = "items"
  /\ \A i \in 1..Len(d.root.kids) :
       /\ d.root.kids[i].tag = "item"
       /\ "id" \in DOMAIN d.root.kids[i].attrs
       /\ IsNumeral(d.root.kids[i].attrs["id"])

\* C3: for a well-formed search response get_game_id returns the id of the
\* first item element in document order, as an integer, when the response
\* holds at least one item element, and None when it holds none.
C3_FirstItemId ==
  (cpc = "done" /\ op = "get_game_id" /\ fetch.st = "return" /\ fetch.val # None
     /\ IsSearchResponse(fetch.val[1])) =>
    LET items == FindAllIn(fetch.val[1].root, "item")
    IN IF items # <<>>
       THEN result = Ret(Some(NumeralValue(items[1].attrs["id"])))
       ELSE result = Ret(None)

C3_Witness ==
  /\ cpc = "done"
  /\ op = "get_game_id"
  /\ fetch = Ret(Some(Doc(El("items", NoAttrs, <<Item(42), Item(7)>>))))
  /\ result = Ret(Some(42))

\* ================================================ retrieve_comments, by step
\* game_id = self.bgg_client.get_game_id(game_name), and the test for None
LookupId ==
  /\ rpc = "lookup"
  /\ ~LoopOver(games, idx)
  /\ \E fo \in FetchOutcomes :
       LET r == get_game_id(fo)
           to == BranchAfterLookup(r)
       IN /\ game_id' = IF r.st = "return" THEN r.val ELSE None
          /\ events' = Append(events, Event("lookup", idx, r.st = "return" /\ r.val # None, <<>>))
                         \o (IF to = "except"
                             THEN <<Event("except", idx, FALSE, <<>>)>> ELSE <<>>)
          /\ rpc' = IF to = "comments" THEN "comments" ELSE "lookup"
          /\ idx' = IF to = "comments" THEN idx ELSE idx + 1
  /\ UNCHANGED <<games, all_comments, files, ret>>
  /\ UNCHANGED <<clientVars, storeVars>>

\* comments = get_game_comments(...); all_comments[game_name] = comments
FetchComments ==
  /\ rpc = "comments"
  /\ \E fo \in FetchOutcomes :
       LET r == get_game_comments(fo)
       IN IF r.st = "return"
          THEN /\ all_comments' = DictSet(all_comments, games[idx], r.val)
               /\ events' = Append(events, Event("comments", idx, TRUE, r.val))
               /\ rpc' = "save"
               /\ idx' = idx
          ELSE /\ events' = Append(events, Event("except", idx, FALSE, <<>>))
               /\ rpc' = "lookup"
               /\ idx' = idx + 1
               /\ UNCHANGED all_comments
  /\ UNCHANGED <<games, game_id, files, ret>>
  /\ UNCHANGED <<clientVars, storeVars>>

\* self._save_game_comments(game_name, comments), then the next name
SaveGame ==
  /\ rpc = "save"
  /\ \E io \in {"ok", "PermissionError", "ENOSPC"} :
       LET name == games[idx]
           r == save_game_comments(io)
       IN /\ files' = WriteFile(files, GamePath(name),
                                DumpComments(DictGet(all_comments, name)), io)
          /\ events' = Append(events, Event("save", idx, io = "ok", <<>>))
                         \o (IF r.st = "raise"
                             THEN <<Event("except", idx, FALSE, <<>>)>> ELSE <<>>)
  /\ rpc' = "lookup"
  /\ idx' = idx + 1
  /\ UNCHANGED <<games, game_id, all_comments, ret>>
  /\ UNCHANGED <<clientVars, storeVars>>

\* after the loop: self._save_full_dataset(all_comments); return all_comments
SaveFull ==
  /\ rpc = "lookup"
  /\ LoopOver(games, idx)
  /\ \E io \in {"ok", "PermissionError", "ENOSPC"} :
       LET r == save_full_dataset(io)
       IN /\ files' = WriteFile(files, FullPath, DumpDataset(all_comments), io)
          /\ events' = Append(events, Event("full", idx, io = "ok", <<>>))
          /\ ret' = IF r.st = "raise" THEN r ELSE Ret(all_comments)
  /\ rpc' = "done"
  /\ UNCHANGED <<games, idx, game_id, all_comments>>
  /\ UNCHANGED <<clientVars, storeVars>>

RetrNext == LookupId \/ FetchComments \/ SaveGame \/ SaveFull

InitRetrieve == RetrInit /\ ClientIdle /\ StoreIdle

SpecRetrieve == InitRetrieve /\ [][RetrNext]_vars

\* ------------------------------------------------ claims on retrieve_comments
EventsOf(kind) == {k \in 1..Len(events) : events[k].ev = kind}

\* the positions of games whose id lookup returned an id
FoundIdx == {events[k].i : k \in {k \in EventsOf("lookup") : events[k].ok}}

FoundNames == {games[i] : i \in FoundIdx}

KeySet(d) == {d[i][1] : i \in 1..Len(d)}

\* C4: the keys of the returned Dataset are exactly the names whose id lookup
\* returned an id (also when the comment list is empty); a per-game save is
\* made, and a per-game file exists, only for such a name.
C4_OnlyFoundGamesRecorded ==
  /\ KeySet(all_comments) \subseteq FoundNames
  /\ \A k \in EventsOf("save") : events[k].i \in FoundIdx
  /\ \A p \in Paths \ {FullPath} :
       files[p] # Missing => \E n \in FoundNames : GamePath(n) = p
  /\ rpc = "done" => ret.st = "return" /\ KeySet(ret.val) = FoundNames

C4_Witness ==
  /\ rpc = "done"
  /\ games = << <<"C", "1">>, <<"A", "/", "B">> >>
  /\ ret = Ret(<< << <<"A", "/", "B">>, <<>> >> >>)
  /\ files[GamePath(<<"C", "1">>)] = Missing
  /\ files[GamePath(<<"A", "/", "B">>)] = Text(JArr(<<>>))

Rank(ev) ==
  CASE ev = "lookup" -> 1 [] ev = "comments" -> 2 [] ev = "save" -> 3 [] OTHER -> 4

\* C5: names are processed in input order, each one's lookup, comment fetch
\* and per-game save before the next one's lookup; the aggregate
\* save is made exactly once, last, after every name was processed, whether
\* or not the Dataset is empty, and when its write succeeds the file holds
\* the Dataset.
C5_SequentialThenAggregate ==
  /\ \A j, k \in 1..Len(events) :
       j < k => \/ events[j].i < events[k].i
                \/ events[j].i = events[k].i /\ Rank(events[j].ev) <= Rank(events[k].ev)
  /\ \A k \in EventsOf("lookup") : \A i \in FoundIdx :
       i < events[k].i =>
         /\ \E c \in EventsOf("comments") : c < k /\ events[c].i = i
         /\ \E w \in EventsOf("save") : w < k /\ events[w].i = i
  /\ rpc # "done" => EventsOf("full") = {}
  /\ rpc = "done" =>
       /\ EventsOf("full") = {Len(events)}
       /\ {events[k].i : k \in EventsOf("lookup")} = 1..Len(games)
       /\ Cardinality(EventsOf("lookup")) = Len(games)
       /\ events[Len(events)].ok => files[FullPath] = Text(DumpDataset(all_comments))

C5_Witness ==
  /\ rpc = "done"
  /\ Len(games) = 2
  /\ FoundIdx = {1, 2}
  /\ Cardinality(EventsOf("save")) = 2
  /\ files[FullPath] = Text(DumpDataset(all_comments))
  /\ Len(all_comments) = 2

RECURSIVE Replay(_, _, _)
\* the Dataset built from the comment lists fetched, in order
Replay(evs, k, acc) ==
  IF k > Len(evs) THEN acc
  ELSE Replay(evs, k + 1,
              IF evs[k].ev = "comments" THEN DictSet(acc, games[evs[k].i], evs[k].val)
              ELSE acc)

\* C6: whichever saves fail, every name is still looked up, every found game
\* still gets its save attempt, the aggregate save is attempted, the call
\* returns, and it returns the Dataset built from the fetched comment lists,
\* the one the run returns when every save succeeds.
C6_SaveFailuresAbsorbed ==
  rpc = "done" =>
    /\ ret = Ret(Replay(events, 1, <<>>))
    /\ {events[k].i : k \in EventsOf("lookup")} = 1..Len(games)
    /\ {events[k].i : k \in EventsOf("save")} = FoundIdx
    /\ EventsOf("full") # {}

C6_Witness ==
  /\ rpc = "done"
  /\ Len(games) = 2
  /\ \A k \in EventsOf("save") \cup EventsOf("full") : ~events[k].ok
  /\ Cardinality(EventsOf("save")) = 2
  /\ ret.st = "return"
  /\ Len(ret.val) = 2
  /\ ret.val[2][2] # <<>>

\* the comment list fetched last for the game at a position with this property
LastFetched(Sel(_)) ==
  LET ks == {k \in EventsOf("comments") : Sel(events[k].i)}
  IN events[CHOOSE k \in ks : \A j \in ks : j <= k].val

\* C10: when every write succeeds, after the run each per-game file holds the
\* comment list of the game processed last among those whose names sanitize
\* to its filename, while the returned Dataset and the aggregate snapshot
\* keep one entry per name with that name's own comments.
C10_LastWriterWinsOnDiskOnly ==
  (rpc = "done" /\ \A k \in EventsOf("save") \cup EventsOf("full") : events[k].ok) =>
    /\ \A n \in FoundNames :
         LET SamePath(i) == GamePath(games[i]) = GamePath(n)
             SameName(i) == games[i] = n
         IN /\ files[GamePath(n)] = Text(DumpComments(LastFetched(SamePath)))
            /\ DictHas(ret.val, n)
            /\ DictGet(ret.val, n) = LastFetched(SameName)
    /\ files[FullPath] = Text(DumpDataset(ret.val))

C10_Witness ==
  /\ rpc = "done"
  /\ games = << <<"A", "/", "B">>, <<"A", " ", "B">> >>
  /\ \A k \in EventsOf("save") \cup EventsOf("full") : events[k].ok
  /\ KeySet(ret.val) = {<<"A", "/", "B">>, <<"A", " ", "B">>}
  /\ DictGet(ret.val, <<"A", "/", "B">>) = <<CommentOf(CommentFull), CommentOf(CommentAnon)>>
  /\ DictGet(ret.val, <<"A", " ", "B">>) = <<CommentOf(CommentBare)>>
  /\ files[GamePath(<<"A", "/", "B">>)] = Text(DumpComments(<<CommentOf(CommentBare)>>))

\* ============================================ saving, loading, preprocessing
\* _save_full_dataset(dataset)
StoreSave ==
  /\ spc = "save"
  /\ \E io \in {"ok", "PermissionError", "ENOSPC"} :
       /\ save_full_dataset(io).st = "return"
       /\ files' = WriteFile(files, FullPath, DumpDataset(dataset), io)
       /\ save_io' = io
  /\ spc' = "load"
  /\ UNCHANGED <<download_path, dataset, source, loaded, nltk_ok, prep>>
  /\ UNCHANGED <<clientVars, retrRest>>

\* load_local_dataset(source)
StoreLoad ==
  /\ spc = "load"
  /\ \E src \in Sources :
       /\ source' = src
       /\ loaded' = load_local_dataset(files, download_path, src)
  /\ spc' = "done"
  /\ UNCHANGED <<download_path, dataset, save_io, nltk_ok, prep, files>>
  /\ UNCHANGED <<clientVars, retrRest>>

StoreNext == StoreSave \/ StoreLoad

InitStore == StoreInit /\ ClientIdle

SpecStore == InitStore /\ [][StoreNext]_vars

\* the aggregate file was written in full and then loaded with no argument
\* or with its own path
SavedThenLoaded ==
  /\ spc = "done"
  /\ loaded # Pending
  /\ save_io = "ok"
  /\ source \in {None, Some(FullPath)}

\* C7 as stated: after _save_full_dataset(D) wrote the aggregate file,
\* load_local_dataset() and load_local_dataset(aggregate path) return D.
C7_RoundTripAsStated == SavedThenLoaded => loaded = Ret(dataset)

\* C7, amended: the same, where the call with no argument is made on a
\* DataRetriever whose download_path is unset or is the aggregate file's
\* path: the names in order, each with its comments in order, each comment
\* with equal username, rating and value, absent ones absent.
C7_RoundTrip ==
  (SavedThenLoaded /\ (source = None => download_path \in {None, Some(FullPath)}))
    => loaded = Ret(dataset)

C7_Witness ==
  /\ SavedThenLoaded
  /\ source = None
  /\ download_path = None
  /\ Len(dataset) = 2
  /\ dataset[1][2] = <<CommentOf(CommentBare)>>
  /\ dataset[2][2] = <<CommentOf(CommentFull), CommentOf(CommentAnon)>>
  /\ loaded = Ret(dataset)

\* a JSON value that is a Dataset: an object of arrays of objects
IsDatasetJson(j) ==
  /\ j.t = "object"
  /\ \A i \in 1..Len(j.members) :
       LET v == j.members[i][2]
       IN /\ v.t = "array"
          /\ \A k \in 1..Len(v.items) : v.items[k].t = "object"

\* the file is missing, or cannot be read and parsed as a Dataset
BadSnapshot(content) == content.kind # "json" \/ ~IsDatasetJson(content.j)

\* C8: for every path whose file is missing or cannot be read and parsed as
\* a Dataset, load_local_dataset returns the empty Dataset and does not raise.
C8_LoadNeverRaises ==
  (spc = "done" /\ loaded # Pending
     /\ BadSnapshot(ReadFile(files, load_path(download_path, source))))
    => loaded = Ret(<<>>)

\* C9: preprocess_dataset returns, for every Dataset retrieve_comments can
\* return, the same names in the same order, each with as many comments in
\* the same order, every comment keeping its fields and gaining clean_text
\* and tokens.
C9_PreprocessTotal ==
  (spc = "done" /\ prep # Pending) =>
    /\ prep.st = "return"
    /\ DictKeys(prep.val) = DictKeys(dataset)
    /\ \A g \in 1..Len(dataset) :
         /\ Len(prep.val[g][2]) = Len(dataset[g][2])
         /\ \A c \in 1..Len(dataset[g][2]) :
              LET in == dataset[g][2][c]
                  out == prep.val[g][2][c]
              IN /\ SubSeq(out, 1, Len(in)) = in
                 /\ DictKeys(out) = DictKeys(in) \o <<"clean_text", "tokens">>

\* preprocess_dataset(dataset)
Preprocess ==
  /\ spc = "preprocess"
  /\ prep' = preprocess_dataset(dataset, nltk_ok)
  /\ spc' = "done"
  /\ UNCHANGED <<download_path, dataset, save_io, source, loaded, nltk_ok>>
  /\ UNCHANGED <<clientVars, retrVars>>

PrepNext == Preprocess

InitPrep == PrepInit /\ ClientIdle /\ RetrIdle

SpecPrep == InitPrep /\ [][PrepNext]_vars

====
